---- MODULE Spec2Model ----
(***************************************************************************)
(* Docs Grabber: the extraction worker DocsGrabberThread.run and the       *)
(* window DocsGrabberApp that starts it (src/docs_grabber.py), and the     *)
(* file classifiers and filter_files (src/config.py), as a state machine.  *)
(*                                                                         *)
(* A Python str is a sequence of one-character strings.  The string        *)
(* literals of the source stay literals here and Chars[...] gives their    *)
(* characters, so that lower(), endswith(), "in" and re.search are         *)
(* computed character by character as Python computes them.                *)
(*                                                                         *)
(* Five specifications share the variables:                                *)
(*   Spec          one worker thread: constructed, run stage by stage up   *)
(*                 to its finished signal;                                 *)
(*   SpecRerun     the same, and the worker is made and run again with     *)
(*                 the same inputs;                                        *)
(*   SpecParse     the URL match of run() applied to one URL;              *)
(*   SpecClassify  the three classifiers applied to two file names that    *)
(*                 differ in letter case only;                             *)
(*   SpecGui       the DocsGrabberApp window: the user's clicks, the       *)
(*                 worker threads it starts and the delivery of their      *)
(*                 signals to its slots.                                   *)
(***************************************************************************)
EXTENDS Integers, Sequences, FiniteSets, TLC

VARIABLES
    \* ---- the world outside the worker
    repo_tree,      \* the working tree "git clone" produces (files below the clone root)
    tmp_dirs,       \* the temporary directories that exist on disk (their names)
    reference,      \* {target_path}/reference: NoDir or [dirs, files]
    manifest,       \* {target_path}/ai-instructions.md: NoFile or its contents
    \* ---- the DocsGrabberThread object
    repo_url,       \* self.repo_url
    filter_mode,    \* self.filter_mode
    \* ---- run(): position and locals
    pc,
    temp_dir,       \* the name mkdtemp returned
    owner, repo_name, branch, specific_path,
    source_dir,
    signals,        \* the signals emitted so far by the current run, in order
    \* ---- bookkeeping of the runs
    runs,           \* number of threads constructed so far
    prev,           \* inputs and final destination of the last completed run
    \* ---- SpecClassify: the two names and the classifiers' results
    filename, other_filename, verdict,
    \* ---- the DocsGrabberApp window (SpecGui)
    ui,             \* its widgets: enabled / visible flags, progress bar, status label
    dialogs,        \* the modal dialogs and message boxes that are open, innermost last
    delivered,      \* how many of docs_thread's signals the window's slots have handled
    others,         \* threads still running when self.docs_thread was replaced
    app             \* "running", or "quit" after QApplication.quit()

pipelineVars == << repo_tree, tmp_dirs, reference, manifest, repo_url, filter_mode, pc,
                   temp_dir, owner, repo_name, branch, specific_path, source_dir,
                   signals, runs, prev >>
classifyVars == << filename, other_filename, verdict >>
guiVars == << ui, dialogs, delivered, others, app >>
vars == << pipelineVars, classifyVars, guiVars >>

\* ---------------------------------------------------------------------------
\* Bounds of the model
\* ---------------------------------------------------------------------------
MaxFiles == 2          \* tracked files in the fetched repository
MaxRuns == 2           \* runs of the worker, one after the other
MaxNameParts == 2      \* fragments a classified name is made of (SpecClassify)
MaxSegs == 6           \* path segments after the host of a parsed URL (SpecParse)

\* ---------------------------------------------------------------------------
\* Python str operations, on sequences of characters
\* ---------------------------------------------------------------------------
LowerOf ==
  ("A" :> "a") @@ ("B" :> "b") @@ ("C" :> "c") @@ ("D" :> "d") @@ ("E" :> "e") @@
  ("F" :> "f") @@ ("G" :> "g") @@ ("H" :> "h") @@ ("I" :> "i") @@ ("J" :> "j") @@
  ("K" :> "k") @@ ("L" :> "l") @@ ("M" :> "m") @@ ("N" :> "n") @@ ("O" :> "o") @@
  ("P" :> "p") @@ ("Q" :> "q") @@ ("R" :> "r") @@ ("S" :> "s") @@ ("T" :> "t") @@
  ("U" :> "u") @@ ("V" :> "v") @@ ("W" :> "w") @@ ("X" :> "x") @@ ("Y" :> "y") @@
  ("Z" :> "z")

\* str.lower()
str_lower(s) ==
  [i \in 1..Len(s) |-> IF s[i] \in DOMAIN LowerOf THEN LowerOf[s[i]] ELSE s[i]]

\* str.endswith(suffix)
endswith(s, suffix) ==
  /\ Len(suffix) <= Len(s)
  /\ SubSeq(s, Len(s) - Len(suffix) + 1, Len(s)) = suffix

\* str.startswith(prefix)
startswith(s, prefix) ==
  /\ Len(prefix) <= Len(s)
  /\ SubSeq(s, 1, Len(prefix)) = prefix

\* "sub in s"
str_contains(s, sub) ==
  \E i \in 1..(Len(s) - Len(sub) + 1) : SubSeq(s, i, i + Len(sub) - 1) = sub

\* "".join / concatenation of a sequence of strings
RECURSIVE Concat(_)
Concat(ss) == IF ss = << >> THEN << >> ELSE Head(ss) \o Concat(Tail(ss))

\* os.path.join(a, b) on POSIX: an absolute b replaces a; one "/" goes between
os_path_join(a, b) ==
  IF b # << >> /\ b[1] = "/" THEN b
  ELSE IF a = << >> \/ a[Len(a)] = "/" THEN a \o b
  ELSE a \o <<"/">> \o b

\* is_markdown_file: extensions (config.py:70)
extensions ==
  << ".md", ".mdx" >>

\* is_code_file: code_extensions (config.py:75-91)
code_extensions ==
  << ".py", ".js", ".jsx", ".ts", ".tsx", ".java", ".c", ".cpp", ".cs", ".go", ".rb",
     ".php", ".swift", ".kt", ".rs", ".scala", ".sh", ".bash", ".ps1", ".pl", ".lua",
     ".r", ".html", ".htm", ".css", ".scss", ".sass", ".less", ".json", ".xml", ".yaml",
     ".yml", ".gradle", ".sbt", ".make", ".cmake", ".toml", ".ini", ".conf", ".class",
     ".jar", ".war", ".dll", ".exe", ".so", ".o", ".obj", ".pyc", ".dockerfile",
     ".containerfile", ".sql", ".db", ".sqlite" >>

\* is_binary_or_generated_file: binary_extensions (config.py:96-114)
binary_extensions ==
  << ".bin", ".dat", ".exe", ".dll", ".so", ".dylib", ".class", ".jar", ".war", ".ear",
     ".zip", ".tar", ".gz", ".bz2", ".xz", ".7z", ".rar", ".jpg", ".jpeg", ".png",
     ".gif", ".bmp", ".tiff", ".webp", ".ico", ".svg", ".mp3", ".mp4", ".wav", ".flac",
     ".ogg", ".avi", ".mov", ".mkv", ".webm", ".pdf", ".doc", ".docx", ".xls", ".xlsx",
     ".ppt", ".pptx", ".db", ".sqlite", ".mdb", ".pyc", ".pyo", ".o", ".obj", ".a",
     ".lib", ".lock", ".yarn-integrity", "package-lock.json", "yarn.lock", ".cache",
     ".DS_Store", "Thumbs.db" >>

\* is_binary_or_generated_file: generated_patterns (config.py:117-120)
generated_patterns ==
  << "node_modules", "__pycache__", ".git", ".svn", ".hg", ".idea", ".vscode", "build",
     "dist", "target", "out", "bin", "obj" >>

\* The characters of each string literal the model uses: a Python str is modelled
\* as the sequence of its characters.
Chars ==
  ("" :> <<>>)
  @@ (".md" :> <<".","m","d">>)
  @@ (".mdx" :> <<".","m","d","x">>)
  @@ (".py" :> <<".","p","y">>)
  @@ (".js" :> <<".","j","s">>)
  @@ (".jsx" :> <<".","j","s","x">>)
  @@ (".ts" :> <<".","t","s">>)
  @@ (".tsx" :> <<".","t","s","x">>)
  @@ (".java" :> <<".","j","a","v","a">>)
  @@ (".c" :> <<".","c">>)
  @@ (".cpp" :> <<".","c","p","p">>)
  @@ (".cs" :> <<".","c","s">>)
  @@ (".go" :> <<".","g","o">>)
  @@ (".rb" :> <<".","r","b">>)
  @@ (".php" :> <<".","p","h","p">>)
  @@ (".swift" :> <<".","s","w","i","f","t">>)
  @@ (".kt" :> <<".","k","t">>)
  @@ (".rs" :> <<".","r","s">>)
  @@ (".scala" :> <<".","s","c","a","l","a">>)
  @@ (".sh" :> <<".","s","h">>)
  @@ (".bash" :> <<".","b","a","s","h">>)
  @@ (".ps1" :> <<".","p","s","1">>)
  @@ (".pl" :> <<".","p","l">>)
  @@ (".lua" :> <<".","l","u","a">>)
  @@ (".r" :> <<".","r">>)
  @@ (".html" :> <<".","h","t","m","l">>)
  @@ (".htm" :> <<".","h","t","m">>)
  @@ (".css" :> <<".","c","s","s">>)
  @@ (".scss" :> <<".","s","c","s","s">>)
  @@ (".sass" :> <<".","s","a","s","s">>)
  @@ (".less" :> <<".","l","e","s","s">>)
  @@ (".json" :> <<".","j","s","o","n">>)
  @@ (".xml" :> <<".","x","m","l">>)
  @@ (".yaml" :> <<".","y","a","m","l">>)
  @@ (".yml" :> <<".","y","m","l">>)
  @@ (".gradle" :> <<".","g","r","a","d","l","e">>)
  @@ (".sbt" :> <<".","s","b","t">>)
  @@ (".make" :> <<".","m","a","k","e">>)
  @@ (".cmake" :> <<".","c","m","a","k","e">>)
  @@ (".toml" :> <<".","t","o","m","l">>)
  @@ (".ini" :> <<".","i","n","i">>)
  @@ (".conf" :> <<".","c","o","n","f">>)
  @@ (".class" :> <<".","c","l","a","s","s">>)
  @@ (".jar" :> <<".","j","a","r">>)
  @@ (".war" :> <<".","w","a","r">>)
  @@ (".dll" :> <<".","d","l","l">>)
  @@ (".exe" :> <<".","e","x","e">>)
  @@ (".so" :> <<".","s","o">>)
  @@ (".o" :> <<".","o">>)
  @@ (".obj" :> <<".","o","b","j">>)
  @@ (".pyc" :> <<".","p","y","c">>)
  @@ (".dockerfile" :> <<".","d","o","c","k","e","r","f","i","l","e">>)
  @@ (".containerfile" :> <<".","c","o","n","t","a","i","n","e","r","f","i","l","e">>)
  @@ (".sql" :> <<".","s","q","l">>)
  @@ (".db" :> <<".","d","b">>)
  @@ (".sqlite" :> <<".","s","q","l","i","t","e">>)
  @@ (".bin" :> <<".","b","i","n">>)
  @@ (".dat" :> <<".","d","a","t">>)
  @@ (".dylib" :> <<".","d","y","l","i","b">>)
  @@ (".ear" :> <<".","e","a","r">>)
  @@ (".zip" :> <<".","z","i","p">>)
  @@ (".tar" :> <<".","t","a","r">>)
  @@ (".gz" :> <<".","g","z">>)
  @@ (".bz2" :> <<".","b","z","2">>)
  @@ (".xz" :> <<".","x","z">>)
  @@ (".7z" :> <<".","7","z">>)
  @@ (".rar" :> <<".","r","a","r">>)
  @@ (".jpg" :> <<".","j","p","g">>)
  @@ (".jpeg" :> <<".","j","p","e","g">>)
  @@ (".png" :> <<".","p","n","g">>)
  @@ (".gif" :> <<".","g","i","f">>)
  @@ (".bmp" :> <<".","b","m","p">>)
  @@ (".tiff" :> <<".","t","i","f","f">>)
  @@ (".webp" :> <<".","w","e","b","p">>)
  @@ (".ico" :> <<".","i","c","o">>)
  @@ (".svg" :> <<".","s","v","g">>)
  @@ (".mp3" :> <<".","m","p","3">>)
  @@ (".mp4" :> <<".","m","p","4">>)
  @@ (".wav" :> <<".","w","a","v">>)
  @@ (".flac" :> <<".","f","l","a","c">>)
  @@ (".ogg" :> <<".","o","g","g">>)
  @@ (".avi" :> <<".","a","v","i">>)
  @@ (".mov" :> <<".","m","o","v">>)
  @@ (".mkv" :> <<".","m","k","v">>)
  @@ (".webm" :> <<".","w","e","b","m">>)
  @@ (".pdf" :> <<".","p","d","f">>)
  @@ (".doc" :> <<".","d","o","c">>)
  @@ (".docx" :> <<".","d","o","c","x">>)
  @@ (".xls" :> <<".","x","l","s">>)
  @@ (".xlsx" :> <<".","x","l","s","x">>)
  @@ (".ppt" :> <<".","p","p","t">>)
  @@ (".pptx" :> <<".","p","p","t","x">>)
  @@ (".mdb" :> <<".","m","d","b">>)
  @@ (".pyo" :> <<".","p","y","o">>)
  @@ (".a" :> <<".","a">>)
  @@ (".lib" :> <<".","l","i","b">>)
  @@ (".lock" :> <<".","l","o","c","k">>)
  @@ (".yarn-integrity" :> <<".","y","a","r","n","-","i","n","t","e","g","r","i","t","y">>)
  @@ ("package-lock.json" :> <<"p","a","c","k","a","g","e","-","l","o","c","k",".","j","s","o","n">>)
  @@ ("yarn.lock" :> <<"y","a","r","n",".","l","o","c","k">>)
  @@ (".cache" :> <<".","c","a","c","h","e">>)
  @@ (".DS_Store" :> <<".","D","S","_","S","t","o","r","e">>)
  @@ ("Thumbs.db" :> <<"T","h","u","m","b","s",".","d","b">>)
  @@ ("node_modules" :> <<"n","o","d","e","_","m","o","d","u","l","e","s">>)
  @@ ("__pycache__" :> <<"_","_","p","y","c","a","c","h","e","_","_">>)
  @@ (".git" :> <<".","g","i","t">>)
  @@ (".svn" :> <<".","s","v","n">>)
  @@ (".hg" :> <<".","h","g">>)
  @@ (".idea" :> <<".","i","d","e","a">>)
  @@ (".vscode" :> <<".","v","s","c","o","d","e">>)
  @@ ("build" :> <<"b","u","i","l","d">>)
  @@ ("dist" :> <<"d","i","s","t">>)
  @@ ("target" :> <<"t","a","r","g","e","t">>)
  @@ ("out" :> <<"o","u","t">>)
  @@ ("bin" :> <<"b","i","n">>)
  @@ ("obj" :> <<"o","b","j">>)
  @@ ("x" :> <<"x">>)
  @@ ("a" :> <<"a">>)
  @@ ("MD" :> <<"M","D">>)
  @@ ("/" :> <<"/">>)
  @@ ("BUILD" :> <<"B","U","I","L","D">>)
  @@ ("Node_Modules" :> <<"N","o","d","e","_","M","o","d","u","l","e","s">>)
  @@ (".ds_store" :> <<".","d","s","_","s","t","o","r","e">>)
  @@ (".MD" :> <<".","M","D">>)
  @@ (".Mdx" :> <<".","M","d","x">>)
  @@ (".PY" :> <<".","P","Y">>)
  @@ (".EXE" :> <<".","E","X","E">>)
  @@ (".O" :> <<".","O">>)
  @@ ("Obj" :> <<"O","b","j">>)
  @@ ("c.js" :> <<"c",".","j","s">>)
  @@ ("github.com/" :> <<"g","i","t","h","u","b",".","c","o","m","/">>)
  @@ ("/tree/" :> <<"/","t","r","e","e","/">>)
  @@ ("https://" :> <<"h","t","t","p","s",":","/","/">>)
  @@ ("http://" :> <<"h","t","t","p",":","/","/">>)
  @@ ("ftp://" :> <<"f","t","p",":","/","/">>)
  @@ ("github.com" :> <<"g","i","t","h","u","b",".","c","o","m">>)
  @@ ("example.com" :> <<"e","x","a","m","p","l","e",".","c","o","m">>)
  @@ ("mygithub.com" :> <<"m","y","g","i","t","h","u","b",".","c","o","m">>)
  @@ ("acme" :> <<"a","c","m","e">>)
  @@ ("widgets" :> <<"w","i","d","g","e","t","s">>)
  @@ ("tree" :> <<"t","r","e","e">>)
  @@ ("dev" :> <<"d","e","v">>)
  @@ ("docs" :> <<"d","o","c","s">>)
  @@ ("main" :> <<"m","a","i","n">>)
  @@ ("missing" :> <<"m","i","s","s","i","n","g">>)
  @@ ("a.md" :> <<"a",".","m","d">>)
  @@ ("acme/old" :> <<"a","c","m","e","/","o","l","d">>)
  @@ ("https://github.com/acme/old" :> <<"h","t","t","p","s",":","/","/","g","i","t","h","u","b",".","c","o","m","/","a","c","m","e","/","o","l","d">>)
  @@ (" (path: " :> <<" ","(","p","a","t","h",":"," ">>)
  @@ (")" :> <<")">>)
  @@ ("/tmp/tmpk3x9qz_a" :> <<"/","t","m","p","/","t","m","p","k","3","x","9","q","z","_","a">>)
  @@ ("/tmp/tmpw_bin4x2" :> <<"/","t","m","p","/","t","m","p","w","_","b","i","n","4","x","2">>)
  @@ ("/tmp/tmp7h2m_vq0" :> <<"/","t","m","p","/","t","m","p","7","h","2","m","_","v","q","0">>)
  @@ ("b.py" :> <<"b",".","p","y">>)
  @@ ("N.MD" :> <<"N",".","M","D">>)
  @@ ("c.mdx" :> <<"c",".","m","d","x">>)
  @@ ("d.txt" :> <<"d",".","t","x","t">>)
  @@ ("HEAD" :> <<"H","E","A","D">>)
  @@ ("/tmp/tmpe5d_1rty" :> <<"/","t","m","p","/","t","m","p","e","5","d","_","1","r","t","y">>)
  @@ ("/tmp/tmpobj81_ez" :> <<"/","t","m","p","/","t","m","p","o","b","j","8","1","_","e","z">>)
  @@ ("/tmp/tmp0outq9s" :> <<"/","t","m","p","/","t","m","p","0","o","u","t","q","9","s">>)
  @@ ("https://github.com/" :> <<"h","t","t","p","s",":","/","/","g","i","t","h","u","b",".","c","o","m","/">>)
  @@ ("http://github.com/" :> <<"h","t","t","p",":","/","/","g","i","t","h","u","b",".","c","o","m","/">>)

\* ---------------------------------------------------------------------------
\* src/config.py: the file classifiers
\* ---------------------------------------------------------------------------
\* (variant: only the first extension of the list is tried)
is_markdown_file_first_only(name) ==
  endswith(str_lower(name), Chars[extensions[1]])

is_markdown_file(name) ==
  \E i \in 1..Len(extensions) : endswith(str_lower(name), Chars[extensions[i]])

is_code_file(name) ==
  \E i \in 1..Len(code_extensions) : endswith(str_lower(name), Chars[code_extensions[i]])

is_binary_or_generated_file(name) ==
  LET is_binary ==
        \E i \in 1..Len(binary_extensions) :
           endswith(str_lower(name), Chars[binary_extensions[i]])
      is_generated ==
        \E i \in 1..Len(generated_patterns) :
           str_contains(name, Chars[generated_patterns[i]])
  IN  is_binary \/ is_generated

\* ---------------------------------------------------------------------------
\* URLs.  A URL is kept as [scheme, host, segs]; its text is
\* scheme host "/" seg1 "/" seg2 ...  (no "/" after the host when segs is empty;
\* an empty last segment is a trailing "/").
\* ---------------------------------------------------------------------------
RECURSIVE SlashJoin(_)
SlashJoin(segs) ==
  IF segs = << >> THEN << >>
  ELSE IF Len(segs) = 1 THEN Chars[segs[1]]
  ELSE Chars[segs[1]] \o <<"/">> \o SlashJoin(Tail(segs))

UrlText(u) ==
  Chars[u.scheme] \o Chars[u.host] \o
  (IF u.segs = << >> THEN << >> ELSE <<"/">> \o SlashJoin(u.segs))

\* ---------------------------------------------------------------------------
\* run(), line 42:
\*   re.search(r'github\.com/([^/]+)/([^/]+)(?:/tree/([^/]+)/(.+))?', self.repo_url)
\* ---------------------------------------------------------------------------
NoMatch == [matched |-> FALSE, g1 |-> << >>, g2 |-> << >>, g3 |-> << >>, g4 |-> << >>]

\* s[a..b], empty when the range leaves the string
Slice(s, a, b) == IF a >= 1 /\ b <= Len(s) /\ a <= b THEN SubSeq(s, a, b) ELSE << >>

\* [^/]+ is greedy: the first position at or after j that holds "/" or is past the end
RECURSIVE RunEnd(_, _)
RunEnd(s, j) == IF j > Len(s) \/ s[j] = "/" THEN j ELSE RunEnd(s, j + 1)

\* The match attempted with the pattern anchored at position i.  A group that did
\* not take part in the match is None in Python; it is << >> here (a group that
\* took part is never empty, and the code only tests the groups' truth value).
MatchAt(s, i) ==
  LET o1 == i + Len(Chars["github.com/"])
      o2 == RunEnd(s, o1)
      r1 == o2 + 1
      r2 == RunEnd(s, r1)
      b1 == r2 + Len(Chars["/tree/"])
      b2 == RunEnd(s, b1)
      tree == /\ Slice(s, r2, b1 - 1) = Chars["/tree/"]
              /\ b2 > b1                  \* ([^/]+)
              /\ b2 <= Len(s)             \* "/"
              /\ b2 < Len(s)              \* (.+)
  IN  IF /\ Slice(s, i, o1 - 1) = Chars["github.com/"]
         /\ o2 > o1                       \* ([^/]+)
         /\ o2 <= Len(s)                  \* "/"
         /\ r2 > r1                       \* ([^/]+)
      THEN [matched |-> TRUE,
            g1 |-> SubSeq(s, o1, o2 - 1),
            g2 |-> SubSeq(s, r1, r2 - 1),
            g3 |-> IF tree THEN SubSeq(s, b1, b2 - 1) ELSE << >>,
            g4 |-> IF tree THEN SubSeq(s, b2 + 1, Len(s)) ELSE << >>]
      ELSE NoMatch

\* re.search: the match at the leftmost position that has one
re_search(s) ==
  LET starts == {i \in 1..Len(s) : MatchAt(s, i).matched}
  IN  IF starts = {} THEN NoMatch
      ELSE MatchAt(s, CHOOSE i \in starts : \A k \in starts : i <= k)

\* ---------------------------------------------------------------------------
\* Trees.  A file of the fetched tree is [path, bad]: path is the sequence of
\* names from the clone root, bad says that copying the file raises (it cannot
\* be read, or it is a dangling link).  The file's bytes are identified with the
\* file itself: a copy is [path, data] with data the source file's clone path.
\* Directories are the proper prefixes of the files' paths.
\* ---------------------------------------------------------------------------
NoDir == [exists |-> FALSE, dirs |-> {}, files |-> {}]
EmptyDir == [exists |-> TRUE, dirs |-> {}, files |-> {}]
NoFile == [exists |-> FALSE, display_repo_name |-> << >>, url |-> << >>]

\* what "git clone" leaves in temp_dir: the tracked files and the repository metadata
GitMeta == {[path |-> <<".git", "HEAD">>, bad |-> FALSE]}
CloneTree == repo_tree \cup GitMeta

IsPrefix(p, q) == Len(p) <= Len(q) /\ SubSeq(q, 1, Len(p)) = p
DirsOf(files) == UNION {{SubSeq(f.path, 1, k) : k \in 0..(Len(f.path) - 1)} : f \in files}
Rel(path, root) == SubSeq(path, Len(root) + 1, Len(path))
Under(files, root) == {f \in files : Len(f.path) > Len(root) /\ IsPrefix(root, f.path)}

\* the absolute path of a node of the clone
AbsPath(tmp, path) ==
  IF path = << >> THEN Chars[tmp] ELSE os_path_join(Chars[tmp], SlashJoin(path))

RECURSIVE StripSlashes(_)
StripSlashes(p) ==
  IF Len(p) > 1 /\ p[Len(p)] = "/" THEN StripSlashes(SubSeq(p, 1, Len(p) - 1)) ELSE p

\* the nodes of the clone in temp_dir that a path names
FilesAt(tmp, p) == {f \in CloneTree : AbsPath(tmp, f.path) = p}
DirsAt(tmp, p) == {d \in DirsOf(CloneTree) : AbsPath(tmp, d) = StripSlashes(p)}
os_path_exists(tmp, p) == FilesAt(tmp, p) # {} \/ DirsAt(tmp, p) # {}
os_path_isdir(tmp, p) == DirsAt(tmp, p) # {}

\* ---------------------------------------------------------------------------
\* src/config.py: filter_files(source_dir, target_dir, filter_mode)
\* ---------------------------------------------------------------------------
\* lines 156-164: the decision for one file; file is the base name, source_file
\* the path os.walk built for it, os.path.join(root, file)
should_copy(mode, file, source_file) ==
  IF mode = "markdown_only" THEN is_markdown_file(file)
  ELSE IF mode = "exclude_code" THEN ~is_code_file(file)
  ELSE IF mode = "light_filter" THEN ~is_binary_or_generated_file(source_file)
  ELSE TRUE

\* the directory os.walk starts from: the node of the clone that source_dir names
\* (os.walk of a path that is no directory yields nothing)
WalkRoots(tmp, src) == DirsAt(tmp, src)

\* what filter_files adds below target_dir: line 150 makes a directory for every
\* directory walked, lines 166-172 copy the accepted files; a copy that raises is
\* caught (line 173) and leaves no file
filter_files(tmp, src, mode) ==
  IF WalkRoots(tmp, src) = {} THEN [dirs |-> {}, files |-> {}]
  ELSE LET root == CHOOSE d \in WalkRoots(tmp, src) : TRUE
           below == Under(CloneTree, root)
       IN  [dirs  |-> {Rel(d, root) : d \in {d \in DirsOf(below) : Len(d) > Len(root)}},
            files |-> {[path |-> Rel(f.path, root), data |-> f.path] :
                         f \in {f \in below :
                                 /\ should_copy(mode, Chars[f.path[Len(f.path)]],
                                       os_path_join(src, SlashJoin(Rel(f.path, root))))
                                 /\ ~f.bad}}]

\* ---------------------------------------------------------------------------
\* run(), lines 97-104: the copy of mode "none"
\* ---------------------------------------------------------------------------
\* (variant: copytree is called without ignore=)
Ignored_nothing(rel) == FALSE

\* shutil.ignore_patterns('.git'): copytree leaves out every entry named .git
Ignored(rel) == \E k \in 2..Len(rel) : rel[k] = ".git"

\* the entries os.listdir(source_dir) returns
Items(root) == {Rel(f.path, root)[1] : f \in Under(CloneTree, root)}
ItemFiles(root, item) ==
  {f \in Under(CloneTree, root) : Rel(f.path, root)[1] = item /\ ~Ignored(Rel(f.path, root))}
ItemIsDir(root, item) == \E f \in Under(CloneTree, root) :
                            Rel(f.path, root)[1] = item /\ Len(Rel(f.path, root)) > 1

\* copy2 raises on a bad file; copytree copies what it can and raises at its end
ItemRaises(root, item) == \E f \in ItemFiles(root, item) : f.bad
ItemCopy(root, item) ==
  [dirs  |-> IF ItemIsDir(root, item)
             THEN {d \in {Rel(d, root) : d \in {d \in DirsOf(Under(CloneTree, root)) :
                                                   Len(d) > Len(root)}} :
                     d[1] = item /\ ~Ignored(d)}
             ELSE {},
   files |-> {[path |-> Rel(f.path, root), data |-> f.path] :
                f \in {f \in ItemFiles(root, item) : ~f.bad}}]

MergeCopies(cs) == [dirs |-> UNION {c.dirs : c \in cs}, files |-> UNION {c.files : c \in cs}]

\* The outcomes of the loop over os.listdir(source_dir), whose order is arbitrary:
\* either no item raises and all of them (but .git) are copied, or the loop ends at
\* the first item that raises, after any set of items that do not.
copy_all(tmp, src) ==
  IF DirsAt(tmp, src) = {}
  THEN {[raised |-> TRUE, dirs |-> {}, files |-> {}]}        \* os.listdir raises
  ELSE LET root == CHOOSE d \in DirsAt(tmp, src) : TRUE
           items == Items(root) \ {".git"}
           failing == {i \in items : ItemRaises(root, i)}
       IN  IF failing = {}
           THEN {[raised |-> FALSE] @@ MergeCopies({ItemCopy(root, i) : i \in items})}
           ELSE {[raised |-> TRUE] @@
                   MergeCopies({ItemCopy(root, i) : i \in before \cup {first}}) :
                   first \in failing, before \in SUBSET (items \ failing)}

\* ---------------------------------------------------------------------------
\* The inputs of the worker and the environment it runs in
\* ---------------------------------------------------------------------------
FilterModes == {"none", "markdown_only", "exclude_code", "light_filter"}

Url(scheme, host, segs) == [scheme |-> scheme, host |-> host, segs |-> segs]
NoUrl == Url("", "", << >>)

\* The URLs a worker is constructed with.  None of them has a sub-path that begins
\* with "/", "." or "..": those resolve outside the clone.
Urls ==
  { Url("https://", "github.com", <<"acme", "widgets">>),
    Url("https://", "github.com", <<"acme", "widgets", "tree", "dev", "docs">>),
    Url("https://", "github.com", <<"acme", "widgets", "tree", "dev", "build">>),
    Url("https://", "github.com", <<"acme", "widgets", "tree", "dev", "a.md">>),
    Url("https://", "github.com", <<"acme", "widgets", "tree", "dev", "missing">>),
    Url("https://", "github.com", <<"acme">>),
    Url("https://", "example.com", <<"acme", "widgets">>),
    Url("https://", "example.com", <<"github.com", "acme", "widgets">>),
    Url("ftp://", "github.com", <<"acme", "widgets">>) }

\* The files the fetched tree may hold besides its own .git (paths from the
\* clone root); docs/.git/x is metadata of a repository nested below the root
RepoPaths ==
  { <<"a.md">>, <<"b.py">>, <<"N.MD">>,
    <<"docs", "c.mdx">>, <<"docs", ".git", "x">>,
    <<"node_modules", "c.js">>, <<"build", "d.txt">> }

\* The repositories: up to MaxFiles files, at most one of them bad
RepoTrees ==
  UNION { { {[path |-> p, bad |-> (p \in b)] : p \in ps} : b \in {{}} \cup {{p} : p \in ps} } :
            ps \in {s \in SUBSET RepoPaths : Cardinality(s) <= MaxFiles} }

\* The names tempfile.mkdtemp() may return, /tmp/tmp and eight characters of
\* a-z0-9_: two kinds of name are told apart, and mkdtemp returns the first name
\* of either kind that does not exist yet
PlainTempNames == <<"/tmp/tmpk3x9qz_a", "/tmp/tmp7h2m_vq0", "/tmp/tmpe5d_1rty">>
OtherTempNames == <<"/tmp/tmpw_bin4x2", "/tmp/tmpobj81_ez", "/tmp/tmp0outq9s">>
FirstFree(names, existing) ==
  {names[i] : i \in {i \in 1..Len(names) :
                       names[i] \notin existing /\ \A k \in 1..(i - 1) : names[k] \in existing}}
mkdtemp(existing) == FirstFree(PlainTempNames, existing) \cup FirstFree(OtherTempNames, existing)
NoTemp == ""

\* What {target_path} holds before the first run: nothing, or the result of an
\* earlier extraction of something else
Leftover == [exists |-> TRUE, dirs |-> {<<"old">>},
             files |-> {[path |-> <<"old", "stale.md">>, data |-> <<"stale">>]}]
LeftoverManifest == [exists |-> TRUE, display_repo_name |-> Chars["acme/old"],
                     url |-> Chars["https://github.com/acme/old"]]

\* what is remembered of the worker that ran before the current one
NoRun == [done |-> FALSE, fetched |-> FALSE, ok |-> FALSE, reference |-> NoDir]

\* ---------------------------------------------------------------------------
\* Signals (pyqtSignal): progress_signal(int), status_signal(str),
\* finished_signal(bool, str, str)
\* ---------------------------------------------------------------------------
Progress(n) == [sig |-> "progress", value |-> n, ok |-> FALSE, text |-> "", path |-> ""]
Status(t) == [sig |-> "status", value |-> 0, ok |-> FALSE, text |-> t, path |-> ""]
Finished(ok, t, p) == [sig |-> "finished", value |-> 0, ok |-> ok, text |-> t, path |-> p]

Emit(sigs) == signals' = signals \o sigs

HasFinished == signals # << >> /\ signals[Len(signals)].sig = "finished"
Outcome == signals[Len(signals)]

Emitted(s) == \E i \in 1..Len(signals) : signals[i] = s

\* the end of run(): after a return, or after the except clause, the thread is over
Ended == pc' = "done"


\* ---------------------------------------------------------------------------
\* DocsGrabberApp: the widgets of the window
\* ---------------------------------------------------------------------------
\* __init__ and init_ui (lines 250-350): every widget enabled, "Open Docs" hidden
InitialUi ==
  [repo_input |-> TRUE, path_input |-> TRUE, browse_button |-> TRUE,
   start_button |-> TRUE, settings_button |-> TRUE, filter_combo |-> TRUE,
   quit_button |-> TRUE, open_docs_button |-> FALSE,
   progress_bar |-> 0, status_label |-> "Ready", docs_path |-> ""]

GuiIdle ==
  /\ ui = InitialUi
  /\ dialogs = << >>
  /\ delivered = 0
  /\ others = 0
  /\ app = "running"
\* ---------------------------------------------------------------------------
\* DocsGrabberThread
\* ---------------------------------------------------------------------------
\* __init__ (lines 27-31) and start(): a worker is made for a URL and a filter mode
Construct(url, mode) ==
  /\ pc = "idle"
  /\ repo_url' = url
  /\ filter_mode' = mode
  /\ runs' = runs + 1
  /\ pc' = "mkdtemp"
  /\ temp_dir' = NoTemp
  /\ owner' = << >> /\ repo_name' = << >> /\ branch' = << >> /\ specific_path' = << >>
  /\ source_dir' = << >>
  /\ signals' = << >>
  /\ UNCHANGED << repo_tree, tmp_dirs, reference, manifest, prev, classifyVars, guiVars >>

\* the worker has ended and another one is made with the same URL and filter mode
Rerun ==
  /\ pc = "done"
  /\ runs < MaxRuns
  /\ runs' = runs + 1
  /\ pc' = "mkdtemp"
  /\ temp_dir' = NoTemp
  /\ owner' = << >> /\ repo_name' = << >> /\ branch' = << >> /\ specific_path' = << >>
  /\ source_dir' = << >>
  /\ signals' = << >>
  /\ prev' = [done |-> TRUE, fetched |-> Emitted(Progress(40)),
              ok |-> signals[Len(signals)].ok, reference |-> reference]
  /\ UNCHANGED << repo_tree, tmp_dirs, reference, manifest, repo_url, filter_mode,
                  classifyVars, guiVars >>

\* lines 36-39: the temporary directory, then the first status and progress
MkTemp(name) ==
  /\ pc = "mkdtemp"
  /\ temp_dir' = name
  /\ tmp_dirs' = tmp_dirs \cup {name}
  /\ Emit(<<Status("Cloning repository..."), Progress(10)>>)
  /\ pc' = "parse"
  /\ UNCHANGED << repo_tree, reference, manifest, repo_url, filter_mode, owner, repo_name,
                  branch, specific_path, source_dir, runs, prev, classifyVars, guiVars >>

\* lines 42-61: the URL is matched and the groups are read
ParseFails ==
  /\ pc = "parse"
  /\ ~re_search(UrlText(repo_url)).matched
  /\ Emit(<<Finished(FALSE, "Invalid GitHub URL format", "")>>)
  /\ Ended
  /\ UNCHANGED << repo_tree, tmp_dirs, reference, manifest, repo_url, filter_mode, temp_dir,
                  owner, repo_name, branch, specific_path, source_dir, runs, prev,
                  classifyVars, guiVars >>

ParseUrl ==
  /\ pc = "parse"
  /\ LET m == re_search(UrlText(repo_url))
     IN  /\ m.matched
         /\ owner' = m.g1
         /\ repo_name' = m.g2
         /\ branch' = IF m.g3 # << >> THEN m.g3 ELSE Chars["main"]
         /\ specific_path' = m.g4
  /\ pc' = "clone"
  /\ UNCHANGED << repo_tree, tmp_dirs, reference, manifest, repo_url, filter_mode, temp_dir,
                  source_dir, signals, runs, prev, classifyVars, guiVars >>

\* lines 64-72: git clone returns non-zero (no such repository or branch, no network)
CloneFails ==
  /\ pc = "clone"
  /\ Emit(<<Finished(FALSE, "Git clone failed: ...", "")>>)
  /\ Ended
  /\ UNCHANGED << repo_tree, tmp_dirs, reference, manifest, repo_url, filter_mode, temp_dir,
                  owner, repo_name, branch, specific_path, source_dir, runs, prev,
                  classifyVars, guiVars >>

\* lines 64-75: git clone fills temp_dir with CloneTree
Clone ==
  /\ pc = "clone"
  /\ Emit(<<Progress(40), Status("Processing files...")>>)
  /\ pc' = "resolve"
  /\ UNCHANGED << repo_tree, tmp_dirs, reference, manifest, repo_url, filter_mode, temp_dir,
                  owner, repo_name, branch, specific_path, source_dir, runs, prev,
                  classifyVars, guiVars >>

\* lines 78-83: source_dir, and the check that it exists
resolved_source_dir ==
  IF specific_path # << >> THEN os_path_join(Chars[temp_dir], specific_path)
  ELSE Chars[temp_dir]

ResolveFails ==
  /\ pc = "resolve"
  /\ specific_path # << >>
  /\ ~os_path_exists(temp_dir, resolved_source_dir)
  /\ source_dir' = resolved_source_dir
  /\ Emit(<<Finished(FALSE, "Specified path '...' not found in repository", "")>>)
  /\ Ended
  /\ UNCHANGED << repo_tree, tmp_dirs, reference, manifest, repo_url, filter_mode, temp_dir,
                  owner, repo_name, branch, specific_path, runs, prev, classifyVars, guiVars >>

Resolve ==
  /\ pc = "resolve"
  /\ specific_path # << >> => os_path_exists(temp_dir, resolved_source_dir)
  /\ source_dir' = resolved_source_dir
  /\ pc' = "prepare"
  /\ UNCHANGED << repo_tree, tmp_dirs, reference, manifest, repo_url, filter_mode, temp_dir,
                  owner, repo_name, branch, specific_path, signals, runs, prev,
                  classifyVars, guiVars >>

\* (variant: the reference directory is removed and made again as soon as the URL
\* has been matched, before the clone)
PrepareDest_before_clone ==
  /\ pc \in {"clone", "prepare"}
  /\ reference' = EmptyDir
  /\ IF pc = "prepare" THEN Emit(<<Progress(60)>>) /\ pc' = "copy"
      ELSE UNCHANGED << signals, pc >>
  /\ UNCHANGED << repo_tree, tmp_dirs, manifest, repo_url, filter_mode, temp_dir, owner,
                  repo_name, branch, specific_path, source_dir, runs, prev, classifyVars, guiVars >>

\* lines 86-91: the reference directory is removed and made again
PrepareDest ==
  /\ pc = "prepare"
  /\ reference' = EmptyDir
  /\ Emit(<<Progress(60)>>)
  /\ pc' = "copy"
  /\ UNCHANGED << repo_tree, tmp_dirs, manifest, repo_url, filter_mode, temp_dir, owner,
                  repo_name, branch, specific_path, source_dir, runs, prev, classifyVars, guiVars >>

\* a copy into the reference directory: new directories, new and overwritten files
Copied(c) ==
  [exists |-> TRUE,
   dirs   |-> reference.dirs \cup c.dirs,
   files  |-> {f \in reference.files : \A g \in c.files : g.path # f.path} \cup c.files]

\* lines 106-112: the status text of a filtered copy
filter_status ==
  IF filter_mode = "markdown_only" THEN "Filtering and copying markdown files only..."
  ELSE IF filter_mode = "exclude_code" THEN "Filtering and copying non-code files..."
  ELSE IF filter_mode = "light_filter"
       THEN "Filtering and copying documentation files (excluding binaries)..."
  ELSE "Filtering and copying files..."

\* lines 94-104 and 115-116: mode "none", every item copied
CopyAll ==
  /\ pc = "copy"
  /\ filter_mode = "none"
  /\ \E c \in copy_all(temp_dir, source_dir) :
        /\ ~c.raised
        /\ reference' = Copied(c)
  /\ Emit(<<Status("Copying all documentation files..."), Progress(80),
            Status("Creating AI instructions file...")>>)
  /\ pc' = "manifest"
  /\ UNCHANGED << repo_tree, tmp_dirs, manifest, repo_url, filter_mode, temp_dir, owner,
                  repo_name, branch, specific_path, source_dir, runs, prev, classifyVars, guiVars >>

\* lines 94-104 and 147-148: mode "none", os.listdir, copy2 or copytree raises
CopyAllRaises ==
  /\ pc = "copy"
  /\ filter_mode = "none"
  /\ \E c \in copy_all(temp_dir, source_dir) :
        /\ c.raised
        /\ reference' = Copied(c)
  /\ Ended
  /\ Emit(<<Status("Copying all documentation files..."),
            Finished(FALSE, "Error: ...", "")>>)
  /\ UNCHANGED << repo_tree, tmp_dirs, manifest, repo_url, filter_mode, temp_dir, owner,
                  repo_name, branch, specific_path, source_dir, runs, prev, classifyVars, guiVars >>

\* lines 105-116: the filtered modes
CopyFiltered ==
  /\ pc = "copy"
  /\ filter_mode # "none"
  /\ reference' = Copied(filter_files(temp_dir, source_dir, filter_mode))
  /\ Emit(<<Status(filter_status), Progress(80),
            Status("Creating AI instructions file...")>>)
  /\ pc' = "manifest"
  /\ UNCHANGED << repo_tree, tmp_dirs, manifest, repo_url, filter_mode, temp_dir, owner,
                  repo_name, branch, specific_path, source_dir, runs, prev, classifyVars, guiVars >>

\* lines 119-121
display_repo_name ==
  owner \o <<"/">> \o repo_name \o
  (IF specific_path # << >> THEN Chars[" (path: "] \o specific_path \o Chars[")"]
   ELSE << >>)

\* lines 124-138: ai-instructions.md is written
WriteManifest ==
  /\ pc = "manifest"
  /\ manifest' = [exists |-> TRUE, display_repo_name |-> display_repo_name,
                  url |-> UrlText(repo_url)]
  /\ pc' = "cleanup"
  /\ UNCHANGED << repo_tree, tmp_dirs, reference, repo_url, filter_mode, temp_dir, owner,
                  repo_name, branch, specific_path, source_dir, signals, runs, prev,
                  classifyVars, guiVars >>

\* lines 136-138 and 147-148: open() or write() raises
WriteManifestRaises ==
  /\ pc = "manifest"
  /\ Emit(<<Finished(FALSE, "Error: ...", "")>>)
  /\ Ended
  /\ UNCHANGED << repo_tree, tmp_dirs, reference, manifest, repo_url, filter_mode, temp_dir,
                  owner, repo_name, branch, specific_path, source_dir, runs, prev,
                  classifyVars, guiVars >>

\* lines 141-145: the temporary directory is removed and success is reported
Cleanup ==
  /\ pc = "cleanup"
  /\ tmp_dirs' = tmp_dirs \ {temp_dir}
  /\ Emit(<<Progress(100), Status("Documentation successfully grabbed!"),
            Finished(TRUE, "Documentation successfully grabbed!", "reference")>>)
  /\ Ended
  /\ UNCHANGED << repo_tree, manifest, reference, repo_url, filter_mode, temp_dir, owner,
                  repo_name, branch, specific_path, source_dir, runs, prev, classifyVars, guiVars >>

\* ---------------------------------------------------------------------------
\* The worker thread
\* ---------------------------------------------------------------------------
NoVerdict == [done |-> FALSE, markdown |-> <<FALSE, FALSE>>, code |-> <<FALSE, FALSE>>,
              binary_or_generated |-> <<FALSE, FALSE>>]

ClassifyIdle == filename = << >> /\ other_filename = << >> /\ verdict = NoVerdict

ThreadIdle ==
  /\ repo_url = NoUrl /\ filter_mode = ""
  /\ temp_dir = NoTemp
  /\ owner = << >> /\ repo_name = << >> /\ branch = << >> /\ specific_path = << >>
  /\ source_dir = << >>
  /\ signals = << >>
  /\ runs = 0 /\ prev = NoRun

Init ==
  /\ repo_tree \in RepoTrees
  /\ tmp_dirs = {}
  /\ \E old \in BOOLEAN :
        /\ reference = (IF old THEN Leftover ELSE NoDir)
        /\ manifest = (IF old THEN LeftoverManifest ELSE NoFile)
  /\ pc = "idle"
  /\ ThreadIdle
  /\ ClassifyIdle
  /\ GuiIdle

\* a step of run()
RunStep ==
  \/ \E name \in mkdtemp(tmp_dirs) : MkTemp(name)
  \/ ParseFails
  \/ ParseUrl
  \/ CloneFails
  \/ Clone
  \/ ResolveFails
  \/ Resolve
  \/ PrepareDest
  \/ CopyAll
  \/ CopyAllRaises
  \/ CopyFiltered
  \/ WriteManifest
  \/ WriteManifestRaises
  \/ Cleanup

Next ==
  \/ \E url \in Urls, mode \in FilterModes : Construct(url, mode)
  \/ RunStep

Spec == Init /\ [][Next]_vars

\* the worker is run again
NextRerun == Next \/ Rerun

SpecRerun == Init /\ [][NextRerun]_vars

\* ---------------------------------------------------------------------------
\* The URL match alone: lines 42-61 applied to one URL
\* ---------------------------------------------------------------------------
ParseSchemes == {"https://", "http://"}
ParseHosts == {"github.com", "example.com"}
ParseSegs == {"acme", "widgets", "tree", "dev", ""}
ParseUrls ==
  { Url(s, h, segs) : s \in ParseSchemes, h \in ParseHosts,
                      segs \in UNION {[1..k -> ParseSegs] : k \in 0..MaxSegs} }

InitParse ==
  /\ repo_tree = {} /\ tmp_dirs = {} /\ reference = NoDir /\ manifest = NoFile
  /\ repo_url \in ParseUrls
  /\ filter_mode = "none"
  /\ pc = "parse"
  /\ temp_dir = NoTemp
  /\ owner = << >> /\ repo_name = << >> /\ branch = << >> /\ specific_path = << >>
  /\ source_dir = << >>
  /\ signals = << >>
  /\ runs = 1 /\ prev = NoRun
  /\ ClassifyIdle
  /\ GuiIdle

NextParse == ParseFails \/ ParseUrl

SpecParse == InitParse /\ [][NextParse]_vars

\* ---------------------------------------------------------------------------
\* The classifiers alone: two names that differ in letter case only
\* ---------------------------------------------------------------------------
NameFrags ==
  { "x", "a", "/", ".md", ".MD", ".mdx", ".Mdx", ".py", ".PY", ".exe", ".EXE",
    ".o", ".O", "obj", "Obj", "build", "BUILD", "node_modules", "Node_Modules",
    ".ds_store", ".DS_Store" }

NameText(frags) == Concat([i \in 1..Len(frags) |-> Chars[frags[i]]])

FragVariants(f) == {g \in NameFrags : str_lower(Chars[g]) = str_lower(Chars[f])}

RECURSIVE CaseVariants(_)
CaseVariants(frags) ==
  IF frags = << >> THEN {<< >>}
  ELSE {<<g>> \o rest : g \in FragVariants(Head(frags)), rest \in CaseVariants(Tail(frags))}

InitClassify ==
  /\ repo_tree = {} /\ tmp_dirs = {} /\ reference = NoDir /\ manifest = NoFile
  /\ pc = "idle"
  /\ ThreadIdle
  /\ filename \in UNION {[1..k -> NameFrags] : k \in 1..MaxNameParts}
  /\ other_filename \in CaseVariants(filename)
  /\ verdict = NoVerdict
  /\ GuiIdle

Classify ==
  /\ ~verdict.done
  /\ verdict' =
       [done |-> TRUE,
        markdown |-> <<is_markdown_file(NameText(filename)),
                       is_markdown_file(NameText(other_filename))>>,
        code |-> <<is_code_file(NameText(filename)),
                   is_code_file(NameText(other_filename))>>,
        binary_or_generated |->
                 <<is_binary_or_generated_file(NameText(filename)),
                   is_binary_or_generated_file(NameText(other_filename))>>]
  /\ UNCHANGED << pipelineVars, filename, other_filename, guiVars >>

NextClassify == Classify

SpecClassify == InitClassify /\ [][NextClassify]_vars


\* ---------------------------------------------------------------------------
\* DocsGrabberApp: the handlers of the window.  Clicks reach a button only while
\* it is enabled and no modal dialog is open; a signal a worker emits is queued to
\* the window's thread and its slot runs later, in the order of emission.
\* ---------------------------------------------------------------------------
\* what the user may have typed into repo_input
GuiUrls ==
  { NoUrl,
    Url("https://", "github.com", <<"acme", "widgets">>),
    Url("https://", "github.com", <<"acme", "widgets", "tree", "dev", "missing">>),
    Url("http://", "github.com", <<"acme">>),
    Url("https://", "example.com", <<"github.com", "acme", "widgets">>) }

\* the repositories behind these URLs
GuiTrees == {t \in RepoTrees : \A f \in t : f.path = <<"a.md">>}

CanClick(button) == app = "running" /\ dialogs = << >> /\ ui[button]

\* lines 383-399: the checks of start_grabbing
inputs_valid(url, target_is_dir) ==
  /\ UrlText(url) # << >>
  /\ target_is_dir
  /\ \/ startswith(UrlText(url), Chars["https://github.com/"])
     \/ startswith(UrlText(url), Chars["http://github.com/"])

\* (variant: start_button is left enabled)
disable_ui_but_start(u) ==
  [u EXCEPT !.repo_input = FALSE, !.path_input = FALSE, !.browse_button = FALSE,
            !.settings_button = FALSE, !.filter_combo = FALSE, !.quit_button = FALSE,
            !.open_docs_button = FALSE]

\* lines 402-409
disable_ui(u) ==
  [u EXCEPT !.repo_input = FALSE, !.path_input = FALSE, !.browse_button = FALSE,
            !.start_button = FALSE, !.settings_button = FALSE, !.filter_combo = FALSE,
            !.quit_button = FALSE, !.open_docs_button = FALSE]

\* lines 426-432
enable_ui(u) ==
  [u EXCEPT !.repo_input = TRUE, !.path_input = TRUE, !.browse_button = TRUE,
            !.start_button = TRUE, !.settings_button = TRUE, !.filter_combo = TRUE,
            !.quit_button = TRUE]

ThreadRunning == pc \notin {"idle", "done"}

\* start_grabbing, lines 378-399: an input is refused with a warning box
start_grabbing_refused(url, target_is_dir) ==
  /\ CanClick("start_button")
  /\ ~inputs_valid(url, target_is_dir)
  /\ dialogs' = <<"warning">>
  /\ UNCHANGED << pipelineVars, classifyVars, ui, delivered, others, app >>

\* start_grabbing, lines 378-416: the widgets are disabled, then a thread is made,
\* its signals are connected and it is started; a thread self.docs_thread named
\* before goes on running if it had not ended
start_grabbing(url, mode) ==
  /\ CanClick("start_button")
  /\ runs < MaxRuns
  /\ inputs_valid(url, TRUE)
  /\ ui' = disable_ui(ui)
  /\ others' = IF ThreadRunning THEN others + 1 ELSE others
  /\ delivered' = 0
  /\ repo_url' = url
  /\ filter_mode' = mode
  /\ runs' = runs + 1
  /\ pc' = "mkdtemp"
  /\ temp_dir' = NoTemp
  /\ owner' = << >> /\ repo_name' = << >> /\ branch' = << >> /\ specific_path' = << >>
  /\ source_dir' = << >>
  /\ signals' = << >>
  /\ UNCHANGED << repo_tree, tmp_dirs, reference, manifest, prev, classifyVars,
                  dialogs, app >>

\* the next signal of docs_thread that waits for its slot
Waiting == delivered < Len(signals)
NextSignal == signals[delivered + 1]

\* lines 418-419
update_progress ==
  /\ app = "running"
  /\ Waiting /\ NextSignal.sig = "progress"
  /\ ui' = [ui EXCEPT !.progress_bar = NextSignal.value]
  /\ delivered' = delivered + 1
  /\ UNCHANGED << pipelineVars, classifyVars, dialogs, others, app >>

\* lines 421-422
update_status ==
  /\ app = "running"
  /\ Waiting /\ NextSignal.sig = "status"
  /\ ui' = [ui EXCEPT !.status_label = NextSignal.text]
  /\ delivered' = delivered + 1
  /\ UNCHANGED << pipelineVars, classifyVars, dialogs, others, app >>

\* lines 424-440: the widgets are enabled again and a message box is shown
process_finished ==
  /\ app = "running"
  /\ Waiting /\ NextSignal.sig = "finished"
  /\ ui' = IF NextSignal.ok
           THEN [enable_ui(ui) EXCEPT !.docs_path = NextSignal.path,
                                      !.open_docs_button = TRUE]
           ELSE [enable_ui(ui) EXCEPT !.open_docs_button = FALSE]
  /\ dialogs' = dialogs \o <<IF NextSignal.ok THEN "information" ELSE "critical">>
  /\ delivered' = delivered + 1
  /\ UNCHANGED << pipelineVars, classifyVars, others, app >>

\* the innermost box is closed; after the box of a failure, lines 441-442
close_dialog ==
  /\ app = "running"
  /\ dialogs # << >>
  /\ dialogs' = SubSeq(dialogs, 1, Len(dialogs) - 1)
  /\ ui' = IF dialogs[Len(dialogs)] = "critical"
           THEN [ui EXCEPT !.progress_bar = 0, !.status_label = "Ready"]
           ELSE ui
  /\ UNCHANGED << pipelineVars, classifyVars, delivered, others, app >>

\* lines 365-376: the settings dialog is run
open_settings ==
  /\ CanClick("settings_button")
  /\ dialogs' = <<"settings">>
  /\ UNCHANGED << pipelineVars, classifyVars, ui, delivered, others, app >>

\* lines 352-353
quit_application ==
  /\ CanClick("quit_button")
  /\ app' = "quit"
  /\ UNCHANGED << pipelineVars, classifyVars, ui, dialogs, delivered, others >>

InitGui ==
  /\ repo_tree \in GuiTrees
  /\ tmp_dirs = {}
  /\ reference = NoDir /\ manifest = NoFile
  /\ pc = "idle"
  /\ ThreadIdle
  /\ ClassifyIdle
  /\ GuiIdle

NextGui ==
  \/ \E url \in GuiUrls, target_is_dir \in BOOLEAN : start_grabbing_refused(url, target_is_dir)
  \/ \E url \in GuiUrls, mode \in FilterModes : start_grabbing(url, mode)
  \/ update_progress
  \/ update_status
  \/ process_finished
  \/ close_dialog
  \/ open_settings
  \/ quit_application
  \/ RunStep

SpecGui == InitGui /\ [][NextGui]_vars
\* ===========================================================================
\* Properties
\* ===========================================================================
\* the directory of the clone that source_dir names, and the files below it
SourceIsDir == os_path_isdir(temp_dir, source_dir)
SourceRoot == CHOOSE d \in DirsAt(temp_dir, source_dir) : TRUE
SourceFiles == IF SourceIsDir THEN Under(CloneTree, SourceRoot) ELSE {}
RelPath(f) == Rel(f.path, SourceRoot)
BaseName(f) == Chars[f.path[Len(f.path)]]
CopiedPaths == {g.path : g \in reference.files}

\* the copy phase is over and the run went on
AfterCopy == pc \in {"manifest", "cleanup"}
Succeeded == pc = "done" /\ HasFinished /\ Outcome.ok

\* name ends in ext, letter case ignored
EndsIn(name, ext) == endswith(str_lower(name), str_lower(Chars[ext]))

\* ---------------------------------------------------------------------------
\* C1: when the finished signal is emitted, on whatever exit path, the temporary
\* directory made for the run no longer exists.
C1_TempDirDeletedAtFinish ==
  HasFinished => temp_dir \notin tmp_dirs

\* ---------------------------------------------------------------------------
\* C2: a URL whose scheme is not http:// or https://, or whose host is not
\* github.com, gets past the URL match in no run: once the match has been made the
\* run is over with "Invalid GitHub URL format".
SchemeAndHostValid(u) == u.scheme \in {"http://", "https://"} /\ u.host = "github.com"

C2_ForeignUrlRejected ==
  (pc \notin {"idle", "mkdtemp", "parse"} /\ ~SchemeAndHostValid(repo_url))
     => (pc = "done" /\ HasFinished /\ ~Outcome.ok
         /\ Outcome.text = "Invalid GitHub URL format")

\* ---------------------------------------------------------------------------
\* C3: https://github.com/{owner}/{repo} gives that owner and repo, branch "main"
\* and no sub-path; https://github.com/{owner}/{repo}/tree/{branch}/{subpath...}
\* gives that branch and the whole remainder as sub-path; and the branch is the
\* default "main" only when the URL has no /tree/{branch}/ after the repository.
IsGithubRepoUrl(u) ==
  /\ u.scheme = "https://" /\ u.host = "github.com"
  /\ Len(u.segs) >= 2 /\ u.segs[1] # "" /\ u.segs[2] # ""
HasTreeSegment(u) == Len(u.segs) >= 5 /\ u.segs[3] = "tree" /\ u.segs[4] # ""
SubPathOf(u) == SlashJoin(SubSeq(u.segs, 5, Len(u.segs)))

C3_ParseYieldsComponents ==
  (pc # "parse" /\ IsGithubRepoUrl(repo_url)) =>
     /\ pc = "clone"
     /\ owner = Chars[repo_url.segs[1]]
     /\ repo_name = Chars[repo_url.segs[2]]
     /\ Len(repo_url.segs) = 2 => (branch = Chars["main"] /\ specific_path = << >>)
     /\ (HasTreeSegment(repo_url) /\ SubPathOf(repo_url) # << >>) =>
           (branch = Chars[repo_url.segs[4]] /\ specific_path = SubPathOf(repo_url))
     /\ branch = Chars["main"] => ~HasTreeSegment(repo_url)

\* ---------------------------------------------------------------------------
\* C4: in mode light_filter a file (whose copy does not fail) is copied iff
\* is_binary_or_generated_file is false of its path relative to the source
\* directory, whatever the temporary directory is called and whatever sub-path was
\* asked for.
C4_LightFilterByRelativePath ==
  (AfterCopy /\ filter_mode = "light_filter") =>
     \A f \in SourceFiles :
        ~f.bad => ( (RelPath(f) \in CopiedPaths)
                      <=> ~is_binary_or_generated_file(SlashJoin(RelPath(f))) )

\* ---------------------------------------------------------------------------
\* C5 as stated: after a successful run in mode "none" the reference directory
\* holds exactly the files and directories of the source directory other than
\* .git at its root, each file with its bytes; a .git further down is copied.
NotRootGit(rel) == rel[1] # ".git"
NoGitAnywhere(rel) == \A k \in 1..Len(rel) : rel[k] # ".git"
SourceDirs == IF SourceIsDir
              THEN {Rel(d, SourceRoot) :
                      d \in {d \in DirsOf(SourceFiles) : Len(d) > Len(SourceRoot)}}
              ELSE {}

C5_NoneCopiesAllButRootGit ==
  (Succeeded /\ filter_mode = "none") =>
     /\ reference.files = {[path |-> RelPath(f), data |-> f.path] :
                             f \in {f \in SourceFiles : NotRootGit(RelPath(f))}}
     /\ reference.dirs = {d \in SourceDirs : NotRootGit(d)}

\* C5 amended: ... other than every entry named .git, at the root and below it.
C5_NoneCopiesAllButGit ==
  (Succeeded /\ filter_mode = "none") =>
     /\ reference.files = {[path |-> RelPath(f), data |-> f.path] :
                             f \in {f \in SourceFiles : NoGitAnywhere(RelPath(f))}}
     /\ reference.dirs = {d \in SourceDirs : NoGitAnywhere(d)}

\* a successful run in mode "none" over a tree with a .git below its root
C5_Witness ==
  /\ Succeeded /\ filter_mode = "none" /\ specific_path = << >>
  /\ {f.path : f \in repo_tree} = {<<"docs", ".git", "x">>, <<"docs", "c.mdx">>}
  /\ CopiedPaths = {<<"docs", "c.mdx">>}
  /\ reference.dirs = {<<"docs">>}

\* ---------------------------------------------------------------------------
\* C6: in every filter mode, when the copy of a file fails the run still goes on
\* to write the manifest, and every file of the source directory that the mode
\* accepts and whose copy does not fail is in the reference directory.
ReachedCopy == Emitted(Progress(60))
ReachedManifest == Emitted(Status("Creating AI instructions file..."))
Accepted(f) ==
  IF filter_mode = "none" THEN NoGitAnywhere(RelPath(f))
  ELSE should_copy(filter_mode, BaseName(f), os_path_join(source_dir, SlashJoin(RelPath(f))))

C6_FileFailureDoesNotAbort ==
  (pc = "done" /\ ReachedCopy /\ \E f \in SourceFiles : f.bad /\ Accepted(f)) =>
     /\ ReachedManifest
     /\ \A f \in SourceFiles : (Accepted(f) /\ ~f.bad) => RelPath(f) \in CopiedPaths

\* ---------------------------------------------------------------------------
\* C7: when a sub-path is asked for and it does not name a directory of the clone,
\* the run ends with "Specified path ... not found in repository" and the
\* reference directory is never prepared.
C7_SubpathMustBeDirectory ==
  (specific_path # << >> /\ Emitted(Progress(40)) /\ pc # "resolve"
     /\ ~os_path_isdir(temp_dir, source_dir)) =>
        /\ pc = "done"
        /\ Outcome.text = "Specified path '...' not found in repository"
        /\ ~ReachedCopy

\* ---------------------------------------------------------------------------
\* C8: each classifier gives the same answer for two names that differ in letter
\* case only.
C8_ClassifiersIgnoreCase ==
  verdict.done =>
     /\ verdict.markdown[1] = verdict.markdown[2]
     /\ verdict.code[1] = verdict.code[2]
     /\ verdict.binary_or_generated[1] = verdict.binary_or_generated[2]

\* ---------------------------------------------------------------------------
\* C9: when a run succeeds and is followed by a second successful run with the
\* same URL, target and filter mode over the same fetched tree, the second run
\* leaves the reference directory as the first one left it.
C9_SecondRunSameReference ==
  (Succeeded /\ prev.done /\ prev.ok) => reference = prev.reference

\* ---------------------------------------------------------------------------
\* C10 as stated: mode markdown_only copies exactly the files whose name ends in
\* .md or .mdx, mode exclude_code exactly the files whose name ends in no code
\* extension, at every depth.
IsMarkdownName(f) == EndsIn(BaseName(f), ".md") \/ EndsIn(BaseName(f), ".mdx")
IsCodeName(f) == \E i \in 1..Len(code_extensions) : EndsIn(BaseName(f), code_extensions[i])
NamedByMode(f) ==
  IF filter_mode = "markdown_only" THEN IsMarkdownName(f) ELSE ~IsCodeName(f)

C10_FilteredSetsExact ==
  (AfterCopy /\ filter_mode \in {"markdown_only", "exclude_code"}) =>
     CopiedPaths = {RelPath(f) : f \in {f \in SourceFiles : NamedByMode(f)}}

\* C10 amended: ... exactly those of these files whose copy does not fail.
C10_FilteredSetsExactButFailed ==
  (AfterCopy /\ filter_mode \in {"markdown_only", "exclude_code"}) =>
     CopiedPaths = {RelPath(f) : f \in {f \in SourceFiles : NamedByMode(f) /\ ~f.bad}}

\* markdown_only over {a.md, docs/c.mdx} and the metadata: both are copied, a
\* file two levels down among them, and .git/HEAD is not
C10_Witness ==
  /\ AfterCopy /\ filter_mode = "markdown_only" /\ specific_path = << >>
  /\ repo_tree = {[path |-> <<"a.md">>, bad |-> FALSE],
                  [path |-> <<"docs", "c.mdx">>, bad |-> FALSE]}
  /\ CopiedPaths = {<<"a.md">>, <<"docs", "c.mdx">>}


\* ---------------------------------------------------------------------------
\* C11: the URL is parsed first: a run that ends with "Invalid GitHub URL format"
\* has made no temporary directory and has emitted neither "Cloning repository..."
\* nor progress 10, and these two are emitted only for a URL that the match
\* accepts.
InvalidUrlReported ==
  HasFinished /\ ~Outcome.ok /\ Outcome.text = "Invalid GitHub URL format"

C11_ParseBeforeWorkspace ==
  /\ InvalidUrlReported =>
        /\ temp_dir = NoTemp
        /\ tmp_dirs = {}
        /\ ~Emitted(Status("Cloning repository..."))
        /\ ~Emitted(Progress(10))
  /\ (Emitted(Progress(10)) \/ Emitted(Status("Cloning repository..."))) =>
        re_search(UrlText(repo_url)).matched

\* ---------------------------------------------------------------------------
\* C12: in the filtered modes, after the copy phase every directory below the
\* reference root is an ancestor of at least one copied file: a source directory
\* whose files are all rejected (.git, a folder of code in markdown_only) leaves
\* no directory in the destination.
IsAncestor(d, path) == Len(d) < Len(path) /\ IsPrefix(d, path)

C12_DirectoriesMadeLazily ==
  (AfterCopy /\ filter_mode \in {"markdown_only", "exclude_code", "light_filter"}) =>
     \A d \in reference.dirs : \E g \in reference.files : IsAncestor(d, g.path)

\* ---------------------------------------------------------------------------
\* C13: a run that ends with "Invalid GitHub URL format", "Git clone failed" or
\* "Specified path ... not found" leaves the reference directory and
\* ai-instructions.md that were there before it exactly as they were: no step
\* that ends in such a failure, or anywhere before the destination is prepared,
\* changes either of them.
FailedBeforePrepare ==
  /\ pc = "done" /\ HasFinished /\ ~Outcome.ok
  /\ Outcome.text \in {"Invalid GitHub URL format", "Git clone failed: ...",
                       "Specified path '...' not found in repository"}
BeforePrepare == pc \in {"mkdtemp", "parse", "clone", "resolve", "prepare"}

C13_EarlyFailureKeepsDestination ==
  [][ (BeforePrepare \/ FailedBeforePrepare)' => UNCHANGED << reference, manifest >> ]_vars

\* a run over a destination that holds an earlier extraction has ended with a
\* missing sub-path, and the earlier files and manifest are still there
C13_Witness ==
  /\ FailedBeforePrepare
  /\ Outcome.text = "Specified path '...' not found in repository"
  /\ reference = Leftover /\ manifest = LeftoverManifest

\* ---------------------------------------------------------------------------
\* C14: whatever the user clicks and whenever the signals arrive, at most one
\* DocsGrabberThread is running: start_button is disabled as long as the thread
\* started last has not ended, every run emits exactly one finished signal, as
\* its last signal, and start_button is enabled again only once that signal has
\* reached process_finished.
InFlight == others + (IF ThreadRunning THEN 1 ELSE 0)
FinishedSignals == {i \in 1..Len(signals) : signals[i].sig = "finished"}

C14_OneThreadInFlight ==
  /\ InFlight <= 1
  /\ ThreadRunning => ~ui.start_button
  /\ FinishedSignals \subseteq {Len(signals)}
  /\ pc = "done" => FinishedSignals = {Len(signals)}
  /\ (runs > 0 /\ ui.start_button) => (pc = "done" /\ delivered = Len(signals))

\* a second thread is at work, after the first one ended and the user closed the
\* message box and clicked "Grab Docs" again
C14_Witness ==
  /\ runs = 2
  /\ pc = "copy"
  /\ InFlight = 1
  /\ ~ui.start_button
  /\ delivered > 0
====
